---- MODULE Spec2Model ----
(***************************************************************************)
(* Model of opentelemetry.instrumentation.openai: the interceptor          *)
(* installer (OpenAIInstrumentor._instrument / _uninstrument) and the call *)
(* tracer (_with_tracer_wrapper, _wrap_cmd, _get_response_attributes).     *)
(*                                                                         *)
(* An entry point openai.<obj>.create is represented by the number of      *)
(* wrapt FunctionWrapper layers stacked on the original callable.  A call  *)
(* walks down the layers it found at invocation time; every layer that     *)
(* runs _wrap_cmd pushes a span on the call's frame stack and the stack is *)
(* unwound after the original callable has returned or raised.             *)
(*                                                                         *)
(* Two facts are fixed per build, not by this repository, and are chosen   *)
(* nondeterministically in Init:                                           *)
(*   unwrapAcceptsPath  whether opentelemetry.instrumentation.utils.unwrap *)
(*                      resolves a dotted-path string (releases that take  *)
(*                      only an object do getattr(<str>, "create", None),  *)
(*                      find nothing and leave the entry point wrapped);   *)
(*   setAttrRaises      whether Span.set_attribute raises on a value that  *)
(*                      is outside the attribute value domain or drops it  *)
(*                      with a warning of its own.                         *)
(* Positional arguments are forwarded untouched by every layer and are not *)
(* represented; keyword arguments are.                                     *)
(***************************************************************************)
EXTENDS Integers, Sequences, FiniteSets, TLC

VARIABLES layers, nominal, call, spans, unwrapAcceptsPath, setAttrRaises

vars == <<layers, nominal, call, spans, unwrapAcceptsPath, setAttrRaises>>

(* ------------------------------ bounds -------------------------------- *)
MaxLayers == 2
MaxCalls == 2
MaxKwargs == 2
MaxItems == 1

(* --------------------------- value domains ---------------------------- *)
OBJECTS == {"ChatCompletion", "Completion", "Embedding", "Image"}

Calls == 1..MaxCalls

SpanIds == 1..(MaxCalls * (MaxLayers + 2))

Empty == [k \in {} |-> k]

\* a keyword value outside the attribute value domain (messages=[{...}])
NotAttr == "<list-of-dicts>"
\* one embedding vector; a sequence of vectors is not an attribute value
Vec == "<vector>"

Has(m, k) == k \in DOMAIN m

SeqsUpTo(S, n) == UNION {[1..m -> S] : m \in 0..n}

KwPairs == {<<"model", "v1">>, <<"messages", NotAttr>>}

\* keyword arguments in dict iteration order; keys are unique
Kwargs ==
  {kw \in SeqsUpTo(KwPairs, MaxKwargs) :
     \A i, j \in DOMAIN kw : i # j => kw[i][1] # kw[j][1]}

Choice ==
  { [text |-> "hi", finish_reason |-> "stop"],
    [text |-> "", finish_reason |-> "length"],
    [message |-> [content |-> "yo"], finish_reason |-> "stop"],
    [text |-> "", message |-> [content |-> "yo"], finish_reason |-> "stop"] }

Datum ==
  { [embedding |-> Vec],
    [url |-> "u1"],
    [embedding |-> Vec, url |-> "u1"] }

Tops ==
  { Empty,
    [model |-> "v2"],
    [model |-> "v2", usage |-> [prompt_tokens |-> 5, total_tokens |-> 12]] }

Bodies ==
  {Empty}
    \cup {[choices |-> s] : s \in SeqsUpTo(Choice, MaxItems)}
    \cup {[data |-> s] : s \in SeqsUpTo(Datum, MaxItems)}

\* what the wrapped callable may return; Empty is the falsy result
Responses == {t @@ b : t \in Tops, b \in Bodies}

Raises(e) == [raise |-> e]
Returns(v) == [return |-> v]
Pending == [pending |-> TRUE]

Raised(o) == Has(o, "raise")
Returned(o) == Has(o, "return")

Outcomes == {Raises("APIError")} \cup {Returns(r) : r \in Responses}

Inputs == [obj : OBJECTS, kwargs : Kwargs, recording : BOOLEAN, orig : Outcomes]

(* ------------------- _get_response_attributes ------------------------- *)
\* choice.text or choice.message.content: attribute access on a missing
\* field of the response object raises AttributeError
ChoiceRaises(c) ==
  \/ ~Has(c, "text")
  \/ c.text = "" /\ ~Has(c, "message")

ChoiceMessage(c) == IF c.text # "" THEN c.text ELSE c.message.content

\* datum.embedding and datum.url are both read for every datum
DatumRaises(d) == ~Has(d, "embedding") \/ ~Has(d, "url")

PopOr(m, k, default) == IF Has(m, k) THEN m[k] ELSE default

FlattenRaises(response) ==
  LET choices == PopOr(response, "choices", <<>>)
      data == PopOr(response, "data", <<>>)
  IN \/ \E i \in DOMAIN choices : ChoiceRaises(choices[i])
     \/ \E i \in DOMAIN data : DatumRaises(data[i])

UsageKey(k) == "usage." \o k

_get_response_attributes(response) ==
  LET choices == PopOr(response, "choices", <<>>)
      data == PopOr(response, "data", <<>>)
      usage == PopOr(response, "usage", Empty)
      attributes ==
        [k \in DOMAIN response \ {"choices", "data", "usage"} |-> response[k]]
      a1 == IF Len(choices) > 0
            THEN ("prompt_response.messages" :>
                    [i \in DOMAIN choices |-> ChoiceMessage(choices[i])])
                 @@ ("prompt_response.finish_reason" :>
                    [i \in DOMAIN choices |-> choices[i].finish_reason])
                 @@ attributes
            ELSE attributes
      a2 == IF Len(data) > 0
            THEN ("prompt_response.embedding" :>
                    [i \in DOMAIN data |-> data[i].embedding])
                 @@ ("prompt_response.image_url" :>
                    [i \in DOMAIN data |-> data[i].url])
                 @@ a1
            ELSE a1
      a3 == IF DOMAIN usage # {}
            THEN [k \in {UsageKey(u) : u \in DOMAIN usage} |->
                    usage[CHOOSE u \in DOMAIN usage : UsageKey(u) = k]] @@ a2
            ELSE a2
  IN a3

(* ------------------------ span (tracing backend) ---------------------- *)
SeqKeys ==
  { "prompt_response.messages", "prompt_response.finish_reason",
    "prompt_response.embedding", "prompt_response.image_url" }

UsageKeys == {"usage.prompt_tokens", "usage.total_tokens"}

\* the attribute value domain: a string, number or boolean, or a sequence of those
IsValidAttr(k, v) ==
  CASE k \in SeqKeys -> \A i \in DOMAIN v : v[i] \notin {Vec, NotAttr}
    [] k \in UsageKeys -> TRUE
    [] OTHER -> v \notin {Vec, NotAttr}

\* tracer.start_as_current_span(cmd, kind=SpanKind.CLIENT, attributes={})
\* marked is the status the call tracer has passed to set_status; what the
\* backend itself records on a span when an exception leaves the with block
\* is the backend's and is not part of the span record here
StartSpan(cmd, rec) ==
  [ name |-> cmd, kind |-> "CLIENT", recording |-> rec, attrs |-> Empty,
    marked |-> "none", ended |-> FALSE ]

SetAttributeRaises(s, k, v) ==
  s.recording /\ setAttrRaises /\ ~IsValidAttr(k, v)

set_attribute(s, k, v) ==
  IF s.recording /\ IsValidAttr(k, v)
  THEN [s EXCEPT !.attrs = (k :> v) @@ @]
  ELSE s

set_status(s, code) == [s EXCEPT !.marked = code]

\* for key, value in items: span.set_attribute(key, value), up to the first raise
RECURSIVE SetAll(_, _)
SetAll(s, items) ==
  IF Len(items) = 0
  THEN [span |-> s, raised |-> FALSE]
  ELSE LET it == Head(items)
       IN IF SetAttributeRaises(s, it[1], it[2])
          THEN [span |-> s, raised |-> TRUE]
          ELSE SetAll(set_attribute(s, it[1], it[2]), Tail(items))

\* iteration order of the flattened dict: the response's own top-level fields,
\* then the keys in the order the three update() calls add them
AttrOrder ==
  << "model", "prompt_response.messages", "prompt_response.finish_reason",
     "prompt_response.embedding", "prompt_response.image_url",
     "usage.prompt_tokens", "usage.total_tokens" >>

Items(attributes) ==
  LET ks == SelectSeq(AttrOrder, LAMBDA k : k \in DOMAIN attributes)
  IN [i \in DOMAIN ks |-> <<ks[i], attributes[ks[i]]>>]

(* ------------------------------ _wrap_cmd ----------------------------- *)
\* the try block that records the keyword arguments; raised = a warning is logged
RecordInputAttributes(s, kwargs) ==
  IF s.recording /\ Len(kwargs) > 0
  THEN SetAll(s, kwargs)
  ELSE [span |-> s, raised |-> FALSE]

\* the guard on the response dropped
AlwaysTruthy(response) == TRUE

\* if response:
Truthy(response) == DOMAIN response # {}

\* the code after wrapped(*args, **kwargs) has produced ret (returned or raised):
\* the new span, what this frame hands to its caller, and the flattening result
AfterWrapped(s, ret) ==
  IF Raised(ret) \/ ~Truthy(ret.return)
  THEN [span |-> s, ret |-> ret, flat |-> Pending]
  ELSE IF FlattenRaises(ret.return)
  THEN [span |-> s, ret |-> Raises("AttributeError"), flat |-> Raises("AttributeError")]
  ELSE LET attributes == _get_response_attributes(ret.return)
           r == SetAll(s, Items(attributes))
       IN IF r.raised
          THEN [span |-> r.span, ret |-> Raises("SetAttributeError"),
                flat |-> [attrs |-> attributes]]
          ELSE [span |-> set_status(r.span, "OK"), ret |-> ret,
                flat |-> [attrs |-> attributes]]

\* span.end() reached on the returning path only
ExitSpanOnReturn(s, ret) == [s EXCEPT !.ended = ~Raised(ret)]

\* leaving the with block, by return or by exception, ends the span
ExitSpan(s, ret) == [s EXCEPT !.ended = TRUE]

(* ------------------------- _with_tracer_wrapper ----------------------- *)
\* the double-wrap test never true
NeverWrapped(d) == FALSE

\* hasattr(wrapped, "__wrapped__") as seen by layer d: its wrapped target is
\* layer d - 1, a FunctionWrapper unless it is the original callable
HasWrappedAttr(d) == d > 1

\* the span started last in the process, whichever call started it
LastStartedSpan(c) == CHOOSE i \in DOMAIN spans : \A j \in DOMAIN spans : j <= i

\* the span bound by the with statement of the frame that is running
CurrentSpan(c) == call[c].frames[Len(call[c].frames)]

NewSpanId ==
  CHOOSE i \in SpanIds \ DOMAIN spans :
    \A j \in SpanIds \ DOMAIN spans : i <= j

Idle == [pc |-> "idle"]

(* -------------------------------- state ------------------------------- *)
Init ==
  /\ layers = [o \in OBJECTS |-> 0]
  /\ nominal = 0
  /\ call = [c \in Calls |-> Idle]
  /\ spans = Empty
  /\ unwrapAcceptsPath \in BOOLEAN
  /\ setAttrRaises \in BOOLEAN

(* -------------------------- OpenAIInstrumentor ------------------------ *)
wrap_function_wrapper(n) == n + 1

\* unwrap(f"openai.{obj}", "create")
unwrap(n) == IF unwrapAcceptsPath /\ n > 0 THEN n - 1 ELSE n

\* nominal counts the layers that one-more-per-_instrument, one-less-per-
\* _uninstrument arithmetic predicts (a history variable, read by no action)
_instrument ==
  /\ \A o \in OBJECTS : layers[o] < MaxLayers
  /\ layers' = [o \in OBJECTS |-> wrap_function_wrapper(layers[o])]
  /\ nominal' = nominal + 1
  /\ UNCHANGED <<call, spans, unwrapAcceptsPath, setAttrRaises>>

_uninstrument ==
  /\ layers' = [o \in OBJECTS |-> unwrap(layers[o])]
  /\ nominal' = IF nominal > 0 THEN nominal - 1 ELSE 0
  /\ UNCHANGED <<call, spans, unwrapAcceptsPath, setAttrRaises>>

(* ------------------------------ one call ------------------------------ *)
Fixed == <<layers, nominal, unwrapAcceptsPath, setAttrRaises>>

\* the caller evaluates openai.<obj>.create(**kwargs)
Invoke(c, In) ==
  /\ call[c].pc = "idle"
  /\ \E in \in In :
       call' = [call EXCEPT ![c] =
                  [ pc |-> "wrapper", obj |-> in.obj, kwargs |-> in.kwargs,
                    recording |-> in.recording, orig |-> in.orig,
                    entry |-> layers[in.obj],
                    depth |-> layers[in.obj], frames |-> <<>>, opened |-> <<>>,
                    ncalls |-> 0, warnings |-> 0, passed |-> <<>>,
                    ret |-> Pending, flat |-> Pending ]]
  /\ UNCHANGED <<spans, Fixed>>

\* wrapper(): the wrapped target is itself wrapped, call it straight through
Delegate(c) ==
  /\ call[c].pc = "wrapper"
  /\ call[c].depth >= 1
  /\ HasWrappedAttr(call[c].depth)
  /\ call' = [call EXCEPT ![c].depth = @ - 1]
  /\ UNCHANGED <<spans, Fixed>>

\* wrapper() runs _wrap_cmd, which opens its span
OpenSpan(c) ==
  /\ call[c].pc = "wrapper"
  /\ call[c].depth >= 1
  /\ ~HasWrappedAttr(call[c].depth)
  /\ LET id == NewSpanId
     IN /\ spans' = (id :> StartSpan("create", call[c].recording)) @@ spans
        /\ call' = [call EXCEPT ![c].pc = "inputs",
                                ![c].frames = Append(@, id),
                                ![c].opened = Append(@, id)]
  /\ UNCHANGED Fixed

\* the try block over kwargs, then wrapped(*args, **kwargs) is entered
RecordInputs(c) ==
  /\ call[c].pc = "inputs"
  /\ LET r == RecordInputAttributes(spans[CurrentSpan(c)], call[c].kwargs)
     IN /\ spans' = [spans EXCEPT ![CurrentSpan(c)] = r.span]
        /\ call' = [call EXCEPT ![c].pc = "wrapper",
                                ![c].depth = @ - 1,
                                ![c].warnings = IF r.raised THEN @ + 1 ELSE @]
  /\ UNCHANGED Fixed

\* the original create runs and returns or raises
CallOriginal(c) ==
  /\ call[c].pc = "wrapper"
  /\ call[c].depth = 0
  /\ call' = [call EXCEPT ![c].pc = IF call[c].frames = <<>> THEN "done" ELSE "outputs",
                          ![c].ncalls = @ + 1,
                          ![c].passed = call[c].kwargs,
                          ![c].ret = call[c].orig]
  /\ UNCHANGED <<spans, Fixed>>

\* the rest of _wrap_cmd in the innermost open frame, and the end of its with block
RecordOutputs(c) ==
  /\ call[c].pc = "outputs"
  /\ LET id == CurrentSpan(c)
         r == AfterWrapped(spans[id], call[c].ret)
         rest == SubSeq(call[c].frames, 1, Len(call[c].frames) - 1)
     IN /\ spans' = [spans EXCEPT ![id] = ExitSpan(r.span, r.ret)]
        /\ call' = [call EXCEPT ![c].pc = IF rest = <<>> THEN "done" ELSE "outputs",
                                ![c].frames = rest,
                                ![c].ret = r.ret,
                                ![c].flat = r.flat]
  /\ UNCHANGED Fixed

\* the caller has its outcome; the call's spans are with the backend
Return(c) ==
  /\ call[c].pc = "done"
  /\ call' = [call EXCEPT ![c] = Idle]
  /\ spans' = [id \in DOMAIN spans \ {call[c].opened[i] : i \in DOMAIN call[c].opened}
                 |-> spans[id]]
  /\ UNCHANGED Fixed

(* --------------------------- specifications --------------------------- *)
\* one caller, every input
SeqCalls == {1}

Next ==
  \/ _instrument
  \/ _uninstrument
  \/ \E c \in SeqCalls : Invoke(c, Inputs)
  \/ \E c \in SeqCalls : Delegate(c)
  \/ \E c \in SeqCalls : OpenSpan(c)
  \/ \E c \in SeqCalls : RecordInputs(c)
  \/ \E c \in SeqCalls : CallOriginal(c)
  \/ \E c \in SeqCalls : RecordOutputs(c)
  \/ \E c \in SeqCalls : Return(c)

Spec == Init /\ [][Next]_vars

\* several callers in flight at once, after the installer has run, on inputs
\* that tell the calls apart
ConcInputs ==
  {in \in Inputs :
     /\ in.recording
     /\ \/ in.obj = "ChatCompletion" /\ in.kwargs = << <<"messages", NotAttr>> >>
        \/ in.obj = "Completion" /\ in.kwargs = << <<"model", "v1">> >>
     /\ in.orig \in { Raises("APIError"),
                      Returns([model |-> "v2",
                               choices |-> <<[text |-> "hi", finish_reason |-> "stop"]>>]) }}

InitConc ==
  /\ \E n \in 1..MaxLayers :
       /\ layers = [o \in OBJECTS |-> n]
       /\ nominal = n
  /\ call = [c \in Calls |-> Idle]
  /\ spans = Empty
  /\ unwrapAcceptsPath = TRUE
  /\ setAttrRaises \in BOOLEAN

NextConc ==
  \/ \E c \in Calls : Invoke(c, ConcInputs)
  \/ \E c \in Calls : Delegate(c)
  \/ \E c \in Calls : OpenSpan(c)
  \/ \E c \in Calls : RecordInputs(c)
  \/ \E c \in Calls : CallOriginal(c)
  \/ \E c \in Calls : RecordOutputs(c)
  \/ \E c \in Calls : Return(c)

SpecConc == InitConc /\ [][NextConc]_vars

(* ------------------------------- claims ------------------------------- *)
Done(c) == call[c].pc = "done"

SpansOf(c) == {call[c].opened[i] : i \in DOMAIN call[c].opened}

\* the span as the try block over the call's own kwargs leaves a fresh span
InputSpan(c) ==
  RecordInputAttributes(StartSpan("create", call[c].recording), call[c].kwargs).span

\* C1: the outcome the caller observes through the instrumentation (value
\* returned or error raised) is the outcome of the original callable.
C1_PassThrough ==
  \A c \in Calls : Done(c) => call[c].ret = call[c].orig

\* C2: with one layer installed an invocation opens exactly one span, named
\* "create" with kind CLIENT, and no span of a call is open once the call has
\* returned or raised, whichever way it left.
C2_OneSpanClosed ==
  \A c \in Calls :
    /\ call[c].pc # "idle" /\ call[c].entry = 1 => Len(call[c].opened) <= 1
    /\ Done(c) =>
         /\ call[c].entry = 1 => Len(call[c].opened) = 1
         /\ \A id \in SpansOf(c) :
              /\ spans[id].name = "create"
              /\ spans[id].kind = "CLIENT"
              /\ spans[id].ended

\* a call that left through an error raised while recording output attributes
C2_Witness ==
  \E c \in Calls :
    /\ Done(c)
    /\ call[c].entry = 1
    /\ Returned(call[c].orig)
    /\ Raised(call[c].ret)
    /\ Len(call[c].opened) = 1
    /\ spans[call[c].opened[1]].ended

\* C3: with two layers installed an invocation opens exactly one span and
\* calls the original callable exactly once.
C3_DoubleActivate ==
  \A c \in Calls :
    Done(c) /\ call[c].entry = 2 =>
      /\ Len(call[c].opened) = 1
      /\ call[c].ncalls = 1

C3_Witness ==
  \E c \in Calls :
    /\ Done(c)
    /\ call[c].entry = 2
    /\ Len(call[c].opened) = 1
    /\ call[c].ncalls = 1

\* C4: once every _instrument has been answered by an _uninstrument each entry
\* point is the original callable again, and a call through an original entry
\* point opens no span and hands the original's outcome to the caller.
C4_DeactivateRestores ==
  /\ nominal = 0 => \A o \in OBJECTS : layers[o] = 0
  /\ \A c \in Calls :
       Done(c) /\ call[c].entry = 0 =>
         /\ call[c].opened = <<>>
         /\ call[c].ret = call[c].orig

\* C5: on a recording span every keyword argument with a value of the
\* attribute value domain is an attribute of the closed span, with that value.
C5_KwargsRecorded ==
  \A c \in Calls :
    Done(c) /\ call[c].recording =>
      \A id \in SpansOf(c) : \A i \in DOMAIN call[c].kwargs :
        LET k == call[c].kwargs[i][1]
            v == call[c].kwargs[i][2]
        IN IsValidAttr(k, v) =>
             /\ Has(spans[id].attrs, k)
             /\ spans[id].attrs[k] = v

\* C6: a raise while recording keyword arguments is logged as a warning, the
\* original is called exactly once with the unmodified keyword arguments, and
\* the caller gets that call's result or error; a non-recording span gets no
\* input attribute.
C6_InputIsolation ==
  \A c \in Calls :
    /\ call[c].pc # "idle" =>
         \A id \in SpansOf(c) : ~call[c].recording => spans[id].attrs = Empty
    /\ Done(c) /\ call[c].entry >= 1 =>
         /\ call[c].ncalls = 1
         /\ call[c].passed = call[c].kwargs
         /\ call[c].ret = call[c].orig
         /\ ( /\ call[c].recording
              /\ setAttrRaises
              /\ \E i \in DOMAIN call[c].kwargs :
                   ~IsValidAttr(call[c].kwargs[i][1], call[c].kwargs[i][2]) )
              => call[c].warnings = 1

\* what _wrap_cmd makes of the call's own inputs, with no other call around
OwnResult(c) == AfterWrapped(InputSpan(c), call[c].orig)

C7_OwnResults ==
  /\ \A c, d \in Calls :
       c # d /\ call[c].pc # "idle" /\ call[d].pc # "idle" =>
         SpansOf(c) \cap SpansOf(d) = {}
  /\ \A c \in Calls :
       Done(c) =>
         /\ Len(call[c].opened) = 1
         /\ spans[call[c].opened[1]] = [OwnResult(c).span EXCEPT !.ended = TRUE]
         /\ call[c].ret = OwnResult(c).ret

C7_NoInterference ==
  \A c, d \in Calls :
    c # d /\ call'[c] # call[c] =>
      /\ call'[d] = call[d]
      /\ call[d].pc # "idle" =>
           \A id \in SpansOf(d) : id \in DOMAIN spans' /\ spans'[id] = spans[id]

\* C7: calls in flight together each have a span of their own, a step of one
\* call changes nothing of another, and the span and the outcome of a finished
\* call are those its own inputs give.
C7_Independent == [](C7_OwnResults) /\ [][C7_NoInterference]_vars

\* a call has finished with its own result while another, with other
\* arguments and another outcome of the original, is still between its
\* input and output recording
C7_Witness ==
  \E c, d \in Calls :
    /\ Done(c)
    /\ call[d].pc = "outputs"
    /\ call[c].kwargs # call[d].kwargs
    /\ Raised(call[c].orig) # Raised(call[d].orig)
    /\ spans[call[c].opened[1]] = [OwnResult(c).span EXCEPT !.ended = TRUE]

\* C8: for a response with a non-empty choices field the flattened attributes
\* hold prompt_response.messages, per choice its text if it has a text field
\* and else its message's content, and prompt_response.finish_reason, in
\* order, and no choices key.
C8_ChoicesFlattened ==
  \A c \in Calls :
    ( /\ Done(c)
      /\ call[c].entry >= 1
      /\ Returned(call[c].orig)
      /\ Has(call[c].orig.return, "choices")
      /\ Len(call[c].orig.return.choices) > 0 ) =>
      LET choices == call[c].orig.return.choices
      IN /\ Has(call[c].flat, "attrs")
         /\ ~Has(call[c].flat.attrs, "choices")
         /\ call[c].flat.attrs["prompt_response.messages"] =
              [i \in DOMAIN choices |->
                 IF Has(choices[i], "text") THEN choices[i].text
                 ELSE choices[i].message.content]
         /\ call[c].flat.attrs["prompt_response.finish_reason"] =
              [i \in DOMAIN choices |-> choices[i].finish_reason]

\* every flattened attribute of the response went through set_attribute
OutputsAllSet(c) ==
  LET response == call[c].orig.return
  IN /\ ~FlattenRaises(response)
     /\ ~( /\ call[c].recording
           /\ setAttrRaises
           /\ \E k \in DOMAIN _get_response_attributes(response) :
                ~IsValidAttr(k, _get_response_attributes(response)[k]) )

\* C9: the call tracer marks a span OK exactly when the wrapped call returned
\* a non-empty result and every flattened attribute was set; when the wrapped
\* call raised or returned an empty result the span has the input attributes
\* only and no status, and it is closed.
C9_StatusOk ==
  \A c \in Calls :
    Done(c) =>
      \A id \in SpansOf(c) :
        LET nonEmpty == Returned(call[c].orig) /\ DOMAIN call[c].orig.return # {}
        IN /\ spans[id].marked \in {"none", "OK"}
           /\ spans[id].marked = "OK" <=> (nonEmpty /\ OutputsAllSet(c))
           /\ ~nonEmpty =>
                /\ spans[id].attrs = InputSpan(c).attrs
                /\ spans[id].marked = "none"
                /\ spans[id].ended

\* a traced call whose original returned the empty result
C9_Witness ==
  \E c \in Calls :
    /\ Done(c)
    /\ Len(call[c].opened) = 1
    /\ Returned(call[c].orig)
    /\ DOMAIN call[c].orig.return = {}
    /\ spans[call[c].opened[1]].ended
    /\ spans[call[c].opened[1]].marked = "none"

\* C10: every entry point carries as many layers as the _instrument calls not
\* yet answered by an _uninstrument; an invocation calls the original exactly
\* once and opens one span if a layer is installed and none otherwise.
C10_LayerArithmetic ==
  /\ \A o \in OBJECTS : layers[o] = nominal
  /\ \A c \in Calls :
       Done(c) =>
         /\ call[c].ncalls = 1
         /\ Len(call[c].opened) = IF call[c].entry >= 1 THEN 1 ELSE 0

====
